---- MODULE Spec2Model ----
(***************************************************************************)
(* Model of custom_components/ha_custom_stt/stt.py: the RS-Tuned STT       *)
(* provider.  Two utterances are processed concurrently by one provider    *)
(* on a cooperative event loop; the encode/gate job and the upload job of  *)
(* each utterance run on executor threads.  Code between two awaits is one *)
(* atomic action.  Time is counted in seconds: the resolution of the temp  *)
(* file timestamp and the unit of the two timeouts.  The wall clock is     *)
(* followed while a stream is still open (its reader is the timestamp of   *)
(* the temp path); after that only the armed timeouts are followed.        *)
(***************************************************************************)
EXTENDS Integers, Sequences, FiniteSets, TLC

\* ------------------------------------------------------------------ bounds
MaxChunks == 2          \* chunks the host delivers per utterance
MaxClock  == 1          \* last second in which a stream may end
MaxProbeLen == 3        \* chunks of a segment handed to is_detect_voice alone

\* ------------------------------------------------------- program constants
MinAudioLen    == 1000  \* len(audio_data) <= 1000
ProcessTimeout == 10    \* async_timeout.timeout(10) around the encode job
SendTimeout    == 10    \* async_timeout.timeout(10) around the upload job
thresh          == -50  \* is_detect_voice default
min_silence_len == 500  \* is_detect_voice default (ms)
silence_thresh  == -70  \* is_detect_voice default
NegInf          == -1000 \* stands for -float("infinity")

Utterances == {"u1", "u2"}

None == [kind |-> "None"]

\* SpeechMetadata of the only supported format (mono, 16 bit, 16000 Hz).
Metadata == [channel |-> 1, bit_rate |-> 16, sample_rate |-> 16000]

\* bytes of PCM per millisecond of audio
BytesPerMs ==
    (Metadata.sample_rate * (Metadata.bit_rate \div 8) * Metadata.channel) \div 1000

\* The chunks a stream may deliver: a run of bytes of one mean power.  Power
\* is in units of 10^-9 of full scale, so 1 is -90 dBFS and 100000 -40 dBFS.
ChunkKinds == { [len |-> 1000, pw |-> 1], [len |-> 1001, pw |-> 100000] }

ChunksOf(u) == { [src |-> u, len |-> k.len, pw |-> k.pw] : k \in ChunkKinds }

\* SpeechResult(text, state)
SpeechResult(text, state) == [kind |-> "SpeechResult", text |-> text, result |-> state]

ErrorResult == SpeechResult("", "ERROR")

Placeholder == "transcribed text"

\* ---------------------------------------------------------- pure functions
RECURSIVE ByteLen(_)
\* len(audio_data) of a concatenation of chunks
ByteLen(data) ==
    IF data = <<>> THEN 0 ELSE Head(data).len + ByteLen(Tail(data))

\* audio_data += chunk
Accumulate(data, chunk) == Append(data, chunk)

\* the guard with the boundary value let through
TooShortMutant(data) == ByteLen(data) < MinAudioLen

\* the guard of the short-buffer return
TooShort(data) == ByteLen(data) <= MinAudioLen

\* the WAV framing with the sample width left in bits
WavEncodeMutant(meta, data) ==
    [kind |-> "wav", nchannels |-> meta.channel, sampwidth |-> meta.bit_rate,
     framerate |-> meta.sample_rate,
     nframes |-> ByteLen(data) \div (meta.bit_rate * meta.channel),
     datalen |-> ByteLen(data), frames |-> data]

\* wave.open(...,"wb") ... writeframes(audio_data): the header fields from
\* the metadata, the frame count and the length of the data chunk from the
\* bytes written, and the body the accumulated bytes
WavEncode(meta, data) ==
    [kind |-> "wav", nchannels |-> meta.channel, sampwidth |-> meta.bit_rate \div 8,
     framerate |-> meta.sample_rate,
     nframes |-> ByteLen(data) \div ((meta.bit_rate \div 8) * meta.channel),
     datalen |-> ByteLen(data), frames |-> data]

\* the first n bytes of a run of chunks: the chunks that start before byte
\* n, the last of them cut at byte n
TakeBytes(data, n) ==
    LET Before(i) == ByteLen(SubSeq(data, 1, i - 1))
        m == Cardinality({ i \in 1..Len(data) : Before(i) < n })
    IN  IF ByteLen(data) <= n THEN data
        ELSE [i \in 1..m |->
                 IF Before(i) + data[i].len <= n THEN data[i]
                 ELSE [data[i] EXCEPT !.len = n - Before(i)]]

\* AudioSegment.from_file(wav_stream, format="wav"): the bytes of the data
\* chunk, as many as its header field says
WavDecode(wav) == TakeBytes(wav.frames, wav.datalen)

RECURSIVE Energy(_)
Energy(seg) ==
    IF seg = <<>> THEN 0 ELSE Head(seg).len * Head(seg).pw + Energy(Tail(seg))

\* mean power of a segment (0 for an empty one)
MeanPower(seg) ==
    IF ByteLen(seg) = 0 THEN 0 ELSE Energy(seg) \div ByteLen(seg)

\* segment.dBFS, rounded up to the next multiple of 10 dB
DBFS(seg) ==
    LET p == MeanPower(seg) IN
    IF p = 0 THEN NegInf
    ELSE IF p <= 1 THEN -90
    ELSE IF p <= 10 THEN -80
    ELSE IF p <= 100 THEN -70
    ELSE IF p <= 1000 THEN -60
    ELSE IF p <= 10000 THEN -50
    ELSE IF p <= 100000 THEN -40
    ELSE -30

\* duration in ms of chunks i..j of a segment
Millis(seg, i, j) == ByteLen(SubSeq(seg, i, j)) \div BytesPerMs

\* pydub detect_silence: the maximal runs of silent audio lasting at least
\* min_len ms, as index ranges <<i, j>> over the chunks of the segment
DetectSilence(seg, min_len, sil) ==
    { r \in (1..Len(seg)) \X (1..Len(seg)) :
        /\ r[1] <= r[2]
        /\ \A k \in r[1]..r[2] : DBFS(<<seg[k]>>) <= sil
        /\ r[1] > 1 => DBFS(<<seg[r[1] - 1]>>) > sil
        /\ r[2] < Len(seg) => DBFS(<<seg[r[2] + 1]>>) > sil
        /\ Millis(seg, r[1], r[2]) >= min_len }

\* pydub detect_nonsilent: the whole segment when no silence was detected,
\* otherwise the maximal ranges between the detected silences
DetectNonsilent(seg, min_len, sil) ==
    LET silent == DetectSilence(seg, min_len, sil)
        Quiet(k) == \E r \in silent : k \in r[1]..r[2]
    IN  IF silent = {} THEN { <<1, Len(seg)>> }
        ELSE { r \in (1..Len(seg)) \X (1..Len(seg)) :
                 /\ r[1] <= r[2]
                 /\ \A k \in r[1]..r[2] : ~Quiet(k)
                 /\ r[1] > 1 => Quiet(r[1] - 1)
                 /\ r[2] < Len(seg) => Quiet(r[2] + 1) }

\* the comparison with the threshold made inclusive
is_detect_voiceMutant(audio_segment) ==
    \E r \in DetectNonsilent(audio_segment, min_silence_len, silence_thresh) :
        DBFS(SubSeq(audio_segment, r[1], r[2])) >= thresh

\* is_detect_voice(audio_segment) with its default thresholds
is_detect_voice(audio_segment) ==
    \E r \in DetectNonsilent(audio_segment, min_silence_len, silence_thresh) :
        DBFS(SubSeq(audio_segment, r[1], r[2])) > thresh

\* sound.export(mp3_path, format="mp3"): the file written for a segment
Mp3Of(sound) == [kind |-> "mp3", audio |-> sound]

\* f"/config/stt/stt_{current_time}.mp3" with current_time the second
PathAt(t) == [kind |-> "path", dir |-> "/config/stt", stamp |-> t]

\* Python truth value of what the encode job returned: a str is true when
\* it is not empty, a SpeechResult (a dataclass without __bool__) always
Truthy(v) ==
    CASE v.kind = "path" -> v.dir # ""
      [] v.kind = "SpeechResult" -> TRUE
      [] OTHER -> FALSE

\* JSON bodies the endpoint may answer with
Responses ==
    { [kind |-> "json", RecognitionStatus |-> "Success", DisplayText |-> "hello"],
      [kind |-> "json", RecognitionStatus |-> "Failure", DisplayText |-> ""] }

\* ways the upload job fails after the request was issued
PostErrors ==
    { [kind |-> "error", exc |-> e] : e \in {"HTTPError", "ConnectionError"} }

\* ------------------------------------------------------------------ state
VARIABLES
    now,            \* wall clock, in seconds
    end0,           \* whether the host has a network interface "end0"
    pc,             \* per utterance: where async_process_audio_stream is
    audio_data,     \* per utterance: the accumulated chunks
    wav_stream,     \* per utterance: the WAV framed buffer
    mp3_path,       \* per utterance: the temp file path
    time_left,      \* per utterance: seconds left of the timeout around the encode job
    job,            \* per utterance: the encode/gate executor job
    job_ret,        \* per utterance: what that job returned
    result,         \* per utterance: the SpeechResult handed to the host
    raised,         \* per utterance: the exception that left the pipeline
    fs,             \* the files under /config/stt, by timestamp
    task,           \* per utterance: the detached async_send_audio_data task
    send_left,      \* per utterance: seconds left of the timeout around the upload job
    sjob,           \* per utterance: the upload executor job
    reply,          \* per utterance: what the endpoint answered
    send_ret,       \* per utterance: what async_send_audio_data returned
    send_exc,       \* per utterance: the exception async_send_audio_data met
    uploaded,       \* per utterance: the file content posted
    posts,          \* per utterance: number of HTTP POSTs issued
    stream,         \* per utterance: the chunks the host's stream has yielded
    launched,       \* per utterance: number of hass.create_task calls
    probe,          \* the segment handed to is_detect_voice on its own
    verdict         \* what is_detect_voice returned for it

vars == <<now, end0, pc, audio_data, wav_stream, mp3_path, time_left, job, job_ret,
          result, raised, fs, task, send_left, sjob, reply, send_ret, send_exc,
          uploaded, posts, stream, launched, probe, verdict>>

probeVars == <<probe, verdict>>
pipeVars == <<pc, audio_data, wav_stream, mp3_path, time_left, result, raised>>
jobVars  == <<job, job_ret>>
sendVars == <<task, send_left, send_ret, send_exc>>
sjobVars == <<sjob, reply, uploaded, posts>>

Init ==
    /\ now = 0
    /\ end0 \in BOOLEAN
    /\ pc = [u \in Utterances |-> "Receiving"]
    /\ audio_data = [u \in Utterances |-> <<>>]
    /\ wav_stream = [u \in Utterances |-> None]
    /\ mp3_path = [u \in Utterances |-> None]
    /\ time_left = [u \in Utterances |-> 0]
    /\ job = [u \in Utterances |-> "none"]
    /\ job_ret = [u \in Utterances |-> None]
    /\ result = [u \in Utterances |-> None]
    /\ raised = [u \in Utterances |-> "none"]
    /\ fs = [t \in 0..MaxClock |-> None]
    /\ task = [u \in Utterances |-> "none"]
    /\ send_left = [u \in Utterances |-> 0]
    /\ sjob = [u \in Utterances |-> "none"]
    /\ reply = [u \in Utterances |-> None]
    /\ send_ret = [u \in Utterances |-> None]
    /\ send_exc = [u \in Utterances |-> "none"]
    /\ uploaded = [u \in Utterances |-> None]
    /\ posts = [u \in Utterances |-> 0]
    /\ stream = [u \in Utterances |-> <<>>]
    /\ launched = [u \in Utterances |-> 0]
    /\ probe = <<>>
    /\ verdict = None

\* The segments is_detect_voice is tried on: half a second of silence, and
\* 1000 bytes at -60, -50 and -40 dBFS.
ProbeKinds ==
    { [len |-> 16000, pw |-> 1], [len |-> 1000, pw |-> 1000],
      [len |-> 1000, pw |-> 10000], [len |-> 1000, pw |-> 100000] }

Segments ==
    UNION { [1..n -> ChunksOf("probe") \cup
                       { [src |-> "probe", len |-> k.len, pw |-> k.pw] : k \in ProbeKinds }] :
            n \in 0..MaxProbeLen }

\* is_detect_voice called on a segment of its own
VoiceInit ==
    /\ now = 0
    /\ end0 \in BOOLEAN
    /\ pc = [u \in Utterances |-> "Receiving"]
    /\ audio_data = [u \in Utterances |-> <<>>]
    /\ wav_stream = [u \in Utterances |-> None]
    /\ mp3_path = [u \in Utterances |-> None]
    /\ time_left = [u \in Utterances |-> 0]
    /\ job = [u \in Utterances |-> "none"]
    /\ job_ret = [u \in Utterances |-> None]
    /\ result = [u \in Utterances |-> None]
    /\ raised = [u \in Utterances |-> "none"]
    /\ fs = [t \in 0..MaxClock |-> None]
    /\ task = [u \in Utterances |-> "none"]
    /\ send_left = [u \in Utterances |-> 0]
    /\ sjob = [u \in Utterances |-> "none"]
    /\ reply = [u \in Utterances |-> None]
    /\ send_ret = [u \in Utterances |-> None]
    /\ send_exc = [u \in Utterances |-> "none"]
    /\ uploaded = [u \in Utterances |-> None]
    /\ posts = [u \in Utterances |-> 0]
    /\ stream = [u \in Utterances |-> <<>>]
    /\ launched = [u \in Utterances |-> 0]
    /\ probe \in Segments
    /\ verdict = None

DetectVoice ==
    /\ verdict = None
    /\ verdict' = [kind |-> "bool", val |-> is_detect_voice(probe)]
    /\ UNCHANGED <<now, end0, pipeVars, jobVars, fs, sendVars, sjobVars, stream,
                   launched, probe>>

\* ---------------------------------------------- async_process_audio_stream
\* async for chunk in stream: audio_data += chunk
Receive(u, c) ==
    /\ pc[u] = "Receiving"
    /\ Len(audio_data[u]) < MaxChunks
    /\ audio_data' = [audio_data EXCEPT ![u] = Accumulate(@, c)]
    /\ stream' = [stream EXCEPT ![u] = Append(@, c)]
    /\ UNCHANGED <<now, end0, pc, wav_stream, mp3_path, time_left, result, raised,
                   fs, jobVars, sendVars, sjobVars>>
    /\ UNCHANGED <<launched, probeVars>>

\* The stream ends: the length check, the WAV framing, the temp path and the
\* submission of the encode job under its timeout (up to the first await).
EndStream(u) ==
    /\ pc[u] = "Receiving"
    /\ IF TooShort(audio_data[u])
       THEN /\ pc' = [pc EXCEPT ![u] = "Completed"]
            /\ result' = [result EXCEPT ![u] = ErrorResult]
            /\ UNCHANGED <<wav_stream, mp3_path, time_left, job>>
       ELSE /\ wav_stream' = [wav_stream EXCEPT ![u] = WavEncode(Metadata, audio_data[u])]
            /\ mp3_path' = [mp3_path EXCEPT ![u] = PathAt(now)]
            /\ time_left' = [time_left EXCEPT ![u] = ProcessTimeout]
            /\ job' = [job EXCEPT ![u] = "running"]
            /\ pc' = [pc EXCEPT ![u] = "Encoding"]
            /\ UNCHANGED result
    /\ UNCHANGED <<now, end0, audio_data, raised, job_ret, fs, sendVars, sjobVars>>
    /\ UNCHANGED <<stream, launched, probeVars>>

\* job() on an executor thread: decode the WAV, gate on voice, export the MP3.
\* fault names the codec step that fails, if one does; a failed export is
\* taken to raise before it has written the file.
EncodeJob(u, fault) ==
    /\ job[u] = "running"
    /\ LET sound == WavDecode(wav_stream[u]) IN
       \/ /\ fault = "decode"
          /\ job' = [job EXCEPT ![u] = "raised"]
          /\ UNCHANGED <<job_ret, fs>>
       \/ /\ fault = "none"
          /\ ~is_detect_voice(sound)
          /\ job' = [job EXCEPT ![u] = "returned"]
          /\ job_ret' = [job_ret EXCEPT ![u] = ErrorResult]
          /\ UNCHANGED fs
       \/ /\ fault = "export"
          /\ is_detect_voice(sound)
          /\ job' = [job EXCEPT ![u] = "raised"]
          /\ UNCHANGED <<job_ret, fs>>
       \/ /\ fault = "none"
          /\ is_detect_voice(sound)
          /\ fs' = [fs EXCEPT ![mp3_path[u].stamp] = Mp3Of(sound)]
          /\ job' = [job EXCEPT ![u] = "returned"]
          /\ job_ret' = [job_ret EXCEPT ![u] = mp3_path[u]]
    /\ UNCHANGED <<now, end0, pipeVars, sendVars, sjobVars>>
    /\ UNCHANGED <<stream, launched, probeVars>>

\* the await returning what the job returned when that is a SpeechResult,
\* after the send task was launched all the same
ResumeMutant(u) ==
    /\ pc[u] = "Encoding"
    /\ job[u] \in {"returned", "raised"}
    /\ IF job[u] = "raised"
       THEN /\ pc' = [pc EXCEPT ![u] = "Raised"]
            /\ raised' = [raised EXCEPT ![u] = "CodecError"]
            /\ UNCHANGED <<result, task, launched>>
       ELSE /\ pc' = [pc EXCEPT ![u] = "Completed"]
            /\ task' = [task EXCEPT ![u] = "created"]
            /\ launched' = [launched EXCEPT ![u] = @ + 1]
            /\ result' = [result EXCEPT ![u] =
                             IF job_ret[u].kind = "SpeechResult" THEN job_ret[u]
                             ELSE SpeechResult(Placeholder, "SUCCESS")]
            /\ UNCHANGED raised
    /\ time_left' = [time_left EXCEPT ![u] = 0]
    /\ UNCHANGED <<now, end0, audio_data, wav_stream, mp3_path, jobVars, fs,
                   send_left, send_ret, send_exc, sjobVars>>
    /\ UNCHANGED <<stream, probeVars>>

\* The await on the encode job returns and the timeout is disarmed: an
\* exception of the job leaves the coroutine; otherwise "if response:"
\* launches the send task and returns.
Resume(u) ==
    /\ pc[u] = "Encoding"
    /\ job[u] \in {"returned", "raised"}
    /\ IF job[u] = "raised"
       THEN /\ pc' = [pc EXCEPT ![u] = "Raised"]
            /\ raised' = [raised EXCEPT ![u] = "CodecError"]
            /\ UNCHANGED <<result, task, launched>>
       ELSE /\ pc' = [pc EXCEPT ![u] = "Completed"]
            /\ IF Truthy(job_ret[u])
               THEN /\ task' = [task EXCEPT ![u] = "created"]
                    /\ launched' = [launched EXCEPT ![u] = @ + 1]
                    /\ result' = [result EXCEPT ![u] = SpeechResult(Placeholder, "SUCCESS")]
               ELSE /\ result' = [result EXCEPT ![u] = ErrorResult]
                    /\ UNCHANGED <<task, launched>>
            /\ UNCHANGED raised
    /\ time_left' = [time_left EXCEPT ![u] = 0]
    /\ UNCHANGED <<now, end0, audio_data, wav_stream, mp3_path, jobVars, fs,
                   send_left, send_ret, send_exc, sjobVars>>
    /\ UNCHANGED <<stream, probeVars>>

\* async_timeout.timeout(10) expires while the coroutine awaits the encode
\* job: TimeoutError leaves the coroutine; the executor thread is not stopped.
ProcessExpire(u) ==
    /\ pc[u] = "Encoding"
    /\ time_left[u] = 0
    /\ pc' = [pc EXCEPT ![u] = "Raised"]
    /\ raised' = [raised EXCEPT ![u] = "TimeoutError"]
    /\ UNCHANGED <<now, end0, audio_data, wav_stream, mp3_path, time_left, result,
                   jobVars, fs, sendVars, sjobVars>>
    /\ UNCHANGED <<stream, launched, probeVars>>

\* --------------------------------------------------- async_send_audio_data
\* The task starts: the MAC address lookup (outside the try), then the
\* submission of the upload job under its timeout.
SendStart(u) ==
    /\ task[u] = "created"
    /\ IF end0
       THEN /\ task' = [task EXCEPT ![u] = "waiting"]
            /\ send_left' = [send_left EXCEPT ![u] = SendTimeout]
            /\ sjob' = [sjob EXCEPT ![u] = "running"]
            /\ UNCHANGED send_exc
       ELSE /\ task' = [task EXCEPT ![u] = "raised"]
            /\ send_exc' = [send_exc EXCEPT ![u] = "ValueError"]
            /\ UNCHANGED <<send_left, sjob>>
    /\ UNCHANGED <<now, end0, pipeVars, jobVars, fs, send_ret, reply, uploaded, posts>>
    /\ UNCHANGED <<stream, launched, probeVars>>

\* job() on an executor thread, first half: open(file_path) and the POST
SendPost(u) ==
    /\ sjob[u] = "running"
    /\ IF fs[mp3_path[u].stamp] = None
       THEN /\ sjob' = [sjob EXCEPT ![u] = "raised"]
            /\ reply' = [reply EXCEPT ![u] = [kind |-> "error", exc |-> "FileNotFoundError"]]
            /\ UNCHANGED <<uploaded, posts>>
       ELSE /\ sjob' = [sjob EXCEPT ![u] = "posted"]
            /\ uploaded' = [uploaded EXCEPT ![u] = fs[mp3_path[u].stamp]]
            /\ posts' = [posts EXCEPT ![u] = @ + 1]
            /\ UNCHANGED reply
    /\ UNCHANGED <<now, end0, pipeVars, jobVars, fs, sendVars>>
    /\ UNCHANGED <<stream, launched, probeVars>>

\* the second half with a failed request tried again
SendReplyRetry(u, r) ==
    /\ sjob[u] = "posted"
    /\ sjob' = [sjob EXCEPT ![u] = IF r.kind = "json" THEN "returned" ELSE "running"]
    /\ reply' = [reply EXCEPT ![u] = r]
    /\ UNCHANGED <<now, end0, pipeVars, jobVars, fs, sendVars, uploaded, posts>>
    /\ UNCHANGED <<stream, launched, probeVars>>

\* second half: the endpoint answers; raise_for_status() and response.json()
SendReply(u, r) ==
    /\ sjob[u] = "posted"
    /\ sjob' = [sjob EXCEPT ![u] = IF r.kind = "json" THEN "returned" ELSE "raised"]
    /\ reply' = [reply EXCEPT ![u] = r]
    /\ UNCHANGED <<now, end0, pipeVars, jobVars, fs, sendVars, uploaded, posts>>
    /\ UNCHANGED <<stream, launched, probeVars>>

\* The await on the upload job returns: the response, or None on an exception
SendResume(u) ==
    /\ task[u] = "waiting"
    /\ sjob[u] \in {"returned", "raised"}
    /\ task' = [task EXCEPT ![u] = "returned"]
    /\ IF sjob[u] = "returned"
       THEN /\ send_ret' = [send_ret EXCEPT ![u] = reply[u]]
            /\ UNCHANGED send_exc
       ELSE /\ send_ret' = [send_ret EXCEPT ![u] = None]
            /\ send_exc' = [send_exc EXCEPT ![u] = reply[u].exc]
    /\ send_left' = [send_left EXCEPT ![u] = 0]
    /\ UNCHANGED <<now, end0, pipeVars, jobVars, fs, sjobVars>>
    /\ UNCHANGED <<stream, launched, probeVars>>

\* async_timeout.timeout(10) expires while the task awaits the upload job
SendExpire(u) ==
    /\ task[u] = "waiting"
    /\ send_left[u] = 0
    /\ task' = [task EXCEPT ![u] = "returned"]
    /\ send_ret' = [send_ret EXCEPT ![u] = None]
    /\ send_exc' = [send_exc EXCEPT ![u] = "TimeoutError"]
    /\ UNCHANGED <<now, end0, pipeVars, jobVars, fs, send_left, sjobVars>>
    /\ UNCHANGED <<stream, launched, probeVars>>

\* ------------------------------------------------------------------- time
\* the timeouts that are armed, as the seconds they have left
ArmedLeft ==
    { time_left[u] : u \in { v \in Utterances : pc[v] = "Encoding" } }
      \cup { send_left[u] : u \in { v \in Utterances : task[v] = "waiting" } }

\* the event loop has a callback ready to run: it runs before time passes
LoopReady ==
    \E u \in Utterances :
        \/ pc[u] = "Encoding" /\ job[u] \in {"returned", "raised"}
        \/ task[u] = "created"
        \/ task[u] = "waiting" /\ sjob[u] \in {"returned", "raised"}

StreamOpen == \E u \in Utterances : pc[u] = "Receiving"

MinOf(S) == CHOOSE x \in S : \A y \in S : x <= y

\* d seconds pass for every armed timeout
Elapsed(d) ==
    /\ time_left' = [u \in Utterances |->
                        IF pc[u] = "Encoding" THEN time_left[u] - d ELSE time_left[u]]
    /\ send_left' = [u \in Utterances |->
                        IF task[u] = "waiting" THEN send_left[u] - d ELSE send_left[u]]

\* A second passes while a stream is open; no armed timeout is passed over.
\* Seconds are counted from the one in which the first stream ends.
Tick ==
    /\ StreamOpen
    /\ \E u \in Utterances : pc[u] # "Receiving"
    /\ now < MaxClock
    /\ ~LoopReady
    /\ \A t \in ArmedLeft : t >= 1
    /\ now' = now + 1
    /\ Elapsed(1)
    /\ UNCHANGED <<end0, pc, audio_data, wav_stream, mp3_path, result, raised, jobVars,
                   fs, task, send_ret, send_exc, sjobVars>>
    /\ UNCHANGED <<stream, launched, probeVars>>

\* No stream is open: time runs on to the next expiry of an armed timeout.
Elapse ==
    /\ ~StreamOpen
    /\ ~LoopReady
    /\ ArmedLeft # {}
    /\ MinOf(ArmedLeft) > 0
    /\ Elapsed(MinOf(ArmedLeft))
    /\ UNCHANGED <<now, end0, pc, audio_data, wav_stream, mp3_path, result, raised,
                   jobVars, fs, task, send_ret, send_exc, sjobVars>>
    /\ UNCHANGED <<stream, launched, probeVars>>

Next ==
    \/ \E u \in Utterances : \E c \in ChunksOf(u) : Receive(u, c)
    \/ \E u \in Utterances : EndStream(u)
    \/ \E u \in Utterances : \E f \in {"none", "decode", "export"} : EncodeJob(u, f)
    \/ \E u \in Utterances : Resume(u)
    \/ \E u \in Utterances : ProcessExpire(u)
    \/ \E u \in Utterances : SendStart(u)
    \/ \E u \in Utterances : SendPost(u)
    \/ \E u \in Utterances : \E r \in Responses \cup PostErrors : SendReply(u, r)
    \/ \E u \in Utterances : SendResume(u)
    \/ \E u \in Utterances : SendExpire(u)
    \/ Tick
    \/ Elapse

Spec == Init /\ [][Next]_vars

VoiceNext == DetectVoice

VoiceSpec == VoiceInit /\ [][VoiceNext]_vars

\* What the scheduling guarantees: the host ends each stream, the executor
\* runs each submitted job up to its blocking call, the event loop runs each
\* ready callback and time passes.  Nothing makes the endpoint answer.
Fairness ==
    /\ \A u \in Utterances :
        /\ WF_vars(EndStream(u))
        /\ WF_vars(\E f \in {"none", "decode", "export"} : EncodeJob(u, f))
        /\ WF_vars(Resume(u))
        /\ WF_vars(ProcessExpire(u))
        /\ WF_vars(SendStart(u))
        /\ WF_vars(SendPost(u))
        /\ WF_vars(SendResume(u))
        /\ WF_vars(SendExpire(u))
    /\ WF_vars(Tick)
    /\ WF_vars(Elapse)

FairSpec == Spec /\ Fairness

\* ----------------------------------------------------------------- claims
Ended(u) == pc[u] \in {"Completed", "Raised"}

NoNetworkCall(u) == task[u] = "none" /\ sjob[u] = "none" /\ posts[u] = 0

\* C1: an utterance whose accumulated length is at most 1000 bytes ends with
\* the ERROR result with empty text at once, and neither a send task nor an
\* HTTP POST is ever made for it; 1000 bytes exactly is on the ERROR side.
C1_ShortBufferIsError ==
    \A u \in Utterances :
        /\ pc[u] = "Receiving" => result[u] = None /\ NoNetworkCall(u)
        /\ (pc[u] # "Receiving" /\ ByteLen(audio_data[u]) <= 1000) =>
               /\ pc[u] = "Completed"
               /\ result[u] = SpeechResult("", "ERROR")
               /\ NoNetworkCall(u)

\* C1 witness: an utterance of exactly 1000 bytes has ended with ERROR while
\* the other utterance did get its network call.
C1_Witness ==
    \E u, v \in Utterances :
        /\ pc[u] = "Completed"
        /\ ByteLen(audio_data[u]) = 1000
        /\ result[u] = ErrorResult
        /\ posts[v] = 1

\* C2: an utterance longer than 1000 bytes in which the silence gate found
\* no voice returns ERROR with empty text, and no send task is created and
\* no HTTP POST is issued for it.
C2_NoVoiceIsError ==
    \A u \in Utterances :
        (pc[u] = "Completed" /\ job[u] = "returned" /\ job_ret[u] = ErrorResult) =>
            /\ result[u] = SpeechResult("", "ERROR")
            /\ NoNetworkCall(u)

\* C3: when the endpoint answered the request of an utterance with a
\* non-success recognition status or an HTTP error code, the result of that
\* utterance is ERROR with empty text and nothing was thrown.
C3_RemoteFailureIsError ==
    \A u \in Utterances :
        (/\ sjob[u] \in {"returned", "raised"}
         /\ \/ reply[u].kind = "json" /\ reply[u].RecognitionStatus # "Success"
            \/ reply[u].kind = "error" /\ reply[u].exc = "HTTPError") =>
            /\ pc[u] = "Completed"
            /\ result[u] = SpeechResult("", "ERROR")

\* C4: the text of a SUCCESS result is the transcript the endpoint returned
\* for that utterance.
C4_TextIsTranscript ==
    \A u \in Utterances :
        (/\ pc[u] = "Completed"
         /\ result[u].result = "SUCCESS"
         /\ sjob[u] = "returned"
         /\ reply[u].RecognitionStatus = "Success") =>
            result[u].text = reply[u].DisplayText

\* C5: when a timeout of an utterance expires (around the encode job, or
\* around the upload when the endpoint does not answer) the utterance ends
\* with the ERROR result: no TimeoutError reaches the host and the utterance
\* is not left with SUCCESS.
C5_TimeoutIsError ==
    \A u \in Utterances :
        /\ raised[u] # "TimeoutError"
        /\ send_exc[u] = "TimeoutError" => result[u] = SpeechResult("", "ERROR")

\* C6: a failure of the codec step in the encode job is surfaced as the
\* ERROR result with empty text, never as an exception leaving
\* async_process_audio_stream.
C6_CodecFailureIsError ==
    \A u \in Utterances :
        /\ raised[u] # "CodecError"
        /\ (job[u] = "raised" /\ pc[u] = "Completed") =>
               result[u] = SpeechResult("", "ERROR")

\* C7: under fair scheduling every utterance eventually reaches Completed
\* with a SUCCESS or ERROR result; it neither stays in an earlier state for
\* ever nor ends by an exception.
C7_EventuallyCompleted ==
    \A u \in Utterances :
        <>(pc[u] = "Completed" /\ result[u].kind = "SpeechResult")

\* C8: async_send_audio_data never raises to its caller: it returns None on
\* a timeout, a transport error or an HTTP error status, and the parsed
\* response only when the request succeeded.
C8_SendNeverRaises ==
    \A u \in Utterances :
        /\ task[u] # "raised"
        /\ task[u] = "returned" =>
               \/ send_ret[u] = None
               \/ sjob[u] = "returned" /\ send_ret[u] = reply[u]

\* C9: two utterances processed concurrently have distinct temp file paths,
\* each buffer holds only the chunks of its own stream, and the audio
\* uploaded for an utterance is its own.
C9_NoCrossContamination ==
    \A u, v \in Utterances :
        /\ (u # v /\ mp3_path[u] # None /\ mp3_path[v] # None) =>
               mp3_path[u] # mp3_path[v]
        /\ \A i \in 1..Len(audio_data[u]) : audio_data[u][i].src = u
        /\ uploaded[u] # None => uploaded[u] = Mp3Of(audio_data[u])

StageRank(s) ==
    IF s = "Receiving" THEN 1 ELSE IF s = "Encoding" THEN 2 ELSE 3

\* C10: the stages of an utterance happen in order and none is revisited,
\* and the result is handed to the host only after the Transmit stage (the
\* send task launched for the utterance) has finished.
C10_StagesInOrder ==
    /\ [][\A u \in Utterances : StageRank(pc'[u]) >= StageRank(pc[u])]_vars
    /\ [](\A u \in Utterances :
            (pc[u] = "Completed" /\ task[u] # "none") => task[u] = "returned")

\* C11: no utterance is retried: at most one send task is created and at
\* most one HTTP POST is issued for it, whatever became of the request.
C11_NoRetry ==
    \A u \in Utterances :
        /\ launched[u] <= 1
        /\ posts[u] <= 1
        /\ launched[u] = 0 => posts[u] = 0

\* C11 witness: the request of an utterance failed (HTTP error, or no answer
\* within the timeout) and the send task has returned after its one POST.
C11_Witness ==
    \E u \in Utterances :
        /\ task[u] = "returned"
        /\ send_ret[u] = None
        /\ send_exc[u] \in {"HTTPError", "TimeoutError"}
        /\ posts[u] = 1

ProbeSpans == DetectNonsilent(probe, 500, -70)

C14_FileIsOwnExport ==
    \A u \in Utterances :
        /\ launched[u] > 0 => (job[u] = "returned" /\ job_ret[u] = mp3_path[u])
        /\ sjob[u] \in {"posted", "returned", "raised"} =>
               uploaded[u] = Mp3Of(audio_data[u])

Succeeded(u) == pc[u] = "Completed" /\ result[u].result = "SUCCESS"

\* C15: a send task, an upload job or a POST exists for an utterance only
\* if its pipeline returned SUCCESS; an utterance that ended with ERROR or
\* with an exception has none.
C15_NetworkOnlyAfterSuccess ==
    \A u \in Utterances :
        /\ (launched[u] > 0 \/ ~NoNetworkCall(u)) => Succeeded(u)
        /\ (Ended(u) /\ ~Succeeded(u)) => (launched[u] = 0 /\ NoNetworkCall(u))

\* C15 witness: one utterance returned SUCCESS and its POST was issued; the
\* other ended by the timeout of its encode job, with no send task.
C15_Witness ==
    \E u, v \in Utterances :
        /\ Succeeded(u)
        /\ posts[u] = 1
        /\ raised[v] = "TimeoutError"
        /\ task[v] = "none"

\* C16: once the pipeline of an utterance has ended without SUCCESS (ERROR,
\* or the timeout of the encode job with the job still running), nothing
\* more is done for it: its encode job exports no MP3 file and no send task
\* or POST is started.
C16_NoSideEffectAfterEnd ==
    [][\A u \in Utterances :
          (Ended(u) /\ ~Succeeded(u)) =>
              /\ ~(job[u] = "running" /\ job'[u] = "returned"
                     /\ job_ret'[u] = mp3_path[u])
              /\ launched'[u] = launched[u]
              /\ task'[u] = task[u]
              /\ posts'[u] = posts[u]]_vars

====
